---- MODULE Spec2Model ----
(***************************************************************************)
(* BIP-39 mnemonic codec (pkg/bip39) and the command-line entry point of   *)
(* iota-crypto-demo.                                                        *)
(*                                                                          *)
(* Bytes are integers 0..255 and a []byte is a sequence of them, the nil    *)
(* slice being <<>>.  A big.Int is the sequence of its bits, most           *)
(* significant first and without leading zeros (zero is <<>>).  An error is *)
(* the sequence of its messages, outermost wrapper first; the nil error is  *)
(* <<>>.  A word is <<language, index>>: the word that the word list of     *)
(* that language holds at that index.  A call returns [val, err, panic]     *)
(* and is logged in trace as [op, arg, wl, ret], wl being the active word   *)
(* list when it was made.                                                   *)
(***************************************************************************)
EXTENDS Integers, Sequences, FiniteSets, TLC

VARIABLES
    wordLists,      \* registered word lists (their names)
    wordList,       \* the active word list, "" before init
    pc,             \* position of the caller, or of run
    flags,          \* command-line flags of the entry point
    entropy,        \* entropy: the caller's input, or run's local
    mnemonic,       \* mnemonic: the caller's input, or run's local
    seed,           \* run's local seed
    derived,        \* run's locals path, key, hrp and addr
    output,         \* what run has printed
    exit,           \* what run returned, once it has
    trace,          \* the calls made so far, in order
    pbkdf2Calls     \* number of PBKDF2 computations so far

vars == <<wordLists, wordList, pc, flags, entropy, mnemonic, seed, derived,
          output, exit, trace, pbkdf2Calls>>

----------------------------------------------------------------------------
(* Bounds of the model. *)

\* entropy inputs have every length 0..MaxEntropyLen
MaxEntropyLen == 68
\* entropy inputs have the byte patterns 0..MaxPattern
MaxPattern == 3
\* mnemonic inputs of one repeated word have every length 0..MaxWords
MaxWords == 50
\* calls of MnemonicToSeed in one behaviour of SpecSeed
MaxSeedCalls == 2

----------------------------------------------------------------------------
(* Errors and call results. *)

nil == <<>>
ErrInvalidEntropySize == <<"invalid entropy size">>
ErrInvalidMnemonic == <<"invalid mnemonic">>
ErrInvalidChecksum == <<"invalid checksum">>
ErrWordListNotFound == <<"word list not found">>

Return(v, e) == [val |-> v, err |-> e, panic |-> ""]
Panic(msg) == [val |-> nil, err |-> nil, panic |-> msg]

SeedSize == 64
defaultLanguage == "english"

----------------------------------------------------------------------------
(* crypto/sha256.  A 32-bit word is <<high half, low half>>, each half an   *)
(* integer below 2^16, so that no intermediate value exceeds 31 bits.       *)

and4 ==
    <<
       << 0,  0,  0,  0,  0,  0,  0,  0,  0,  0,  0,  0,  0,  0,  0,  0>>,
       << 0,  1,  0,  1,  0,  1,  0,  1,  0,  1,  0,  1,  0,  1,  0,  1>>,
       << 0,  0,  2,  2,  0,  0,  2,  2,  0,  0,  2,  2,  0,  0,  2,  2>>,
       << 0,  1,  2,  3,  0,  1,  2,  3,  0,  1,  2,  3,  0,  1,  2,  3>>,
       << 0,  0,  0,  0,  4,  4,  4,  4,  0,  0,  0,  0,  4,  4,  4,  4>>,
       << 0,  1,  0,  1,  4,  5,  4,  5,  0,  1,  0,  1,  4,  5,  4,  5>>,
       << 0,  0,  2,  2,  4,  4,  6,  6,  0,  0,  2,  2,  4,  4,  6,  6>>,
       << 0,  1,  2,  3,  4,  5,  6,  7,  0,  1,  2,  3,  4,  5,  6,  7>>,
       << 0,  0,  0,  0,  0,  0,  0,  0,  8,  8,  8,  8,  8,  8,  8,  8>>,
       << 0,  1,  0,  1,  0,  1,  0,  1,  8,  9,  8,  9,  8,  9,  8,  9>>,
       << 0,  0,  2,  2,  0,  0,  2,  2,  8,  8, 10, 10,  8,  8, 10, 10>>,
       << 0,  1,  2,  3,  0,  1,  2,  3,  8,  9, 10, 11,  8,  9, 10, 11>>,
       << 0,  0,  0,  0,  4,  4,  4,  4,  8,  8,  8,  8, 12, 12, 12, 12>>,
       << 0,  1,  0,  1,  4,  5,  4,  5,  8,  9,  8,  9, 12, 13, 12, 13>>,
       << 0,  0,  2,  2,  4,  4,  6,  6,  8,  8, 10, 10, 12, 12, 14, 14>>,
       << 0,  1,  2,  3,  4,  5,  6,  7,  8,  9, 10, 11, 12, 13, 14, 15>>
    >>

and8 ==
    LET row(a) == [b \in 1..256 |->
                     16 * and4[((a - 1) \div 16) + 1][((b - 1) \div 16) + 1]
                        + and4[((a - 1) % 16) + 1][((b - 1) % 16) + 1]]
    IN  SubSeq([a \in 1..256 |-> SubSeq(row(a), 1, 256)], 1, 256)

And16(x, y) ==
    256 * and8[(x \div 256) + 1][(y \div 256) + 1] + and8[(x % 256) + 1][(y % 256) + 1]

Xor16(x, y) == x + y - 2 * And16(x, y)

And32(a, b) == <<And16(a[1], b[1]), And16(a[2], b[2])>>

Xor32(a, b) == <<Xor16(a[1], b[1]), Xor16(a[2], b[2])>>

Not32(a) == <<65535 - a[1], 65535 - a[2]>>

Add32(a, b) ==
    <<(a[1] + b[1] + ((a[2] + b[2]) \div 65536)) % 65536, (a[2] + b[2]) % 65536>>

RotR(a, n) ==
    LET hi == IF n < 16 THEN a[1] ELSE a[2]
        lo == IF n < 16 THEN a[2] ELSE a[1]
        p == 2 ^ (n % 16)
        q == 2 ^ (16 - (n % 16))
    IN  <<(hi \div p) + (lo % p) * q, (lo \div p) + (hi % p) * q>>

ShR(a, n) ==
    LET p == 2 ^ n
        q == 2 ^ (16 - n)
    IN  <<a[1] \div p, (a[2] \div p) + (a[1] % p) * q>>

sha256K ==
    <<
       <<17034, 12184>>, <<28983, 17553>>, <<46528, 64463>>, <<59829, 56229>>,
       <<14678, 49755>>, <<23025, 4593>>, <<37439, 33444>>, <<43804, 24277>>,
       <<55303, 43672>>, <<4739, 23297>>, <<9265, 34238>>, <<21772, 32195>>,
       <<29374, 23924>>, <<32990, 45566>>, <<39900, 1703>>, <<49563, 61812>>,
       <<58523, 27073>>, <<61374, 18310>>, <<4033, 40390>>, <<9228, 41420>>,
       <<11753, 11375>>, <<19060, 33962>>, <<23728, 43484>>, <<30457, 35034>>,
       <<38974, 20818>>, <<43057, 50797>>, <<45059, 10184>>, <<48985, 32711>>,
       <<50912, 3059>>, <<54695, 37191>>, <<1738, 25425>>, <<5161, 10599>>,
       <<10167, 2693>>, <<11803, 8504>>, <<19756, 28156>>, <<21304, 3347>>,
       <<25866, 29524>>, <<30314, 2747>>, <<33218, 51502>>, <<37490, 11397>>,
       <<41663, 59553>>, <<43034, 26187>>, <<49739, 35696>>, <<51052, 20899>>,
       <<53650, 59417>>, <<54937, 1572>>, <<62478, 13701>>, <<4202, 41072>>,
       <<6564, 49430>>, <<7735, 27656>>, <<10056, 30540>>, <<13488, 48309>>,
       <<14620, 3251>>, <<20184, 43594>>, <<23452, 51791>>, <<26670, 28659>>,
       <<29839, 33518>>, <<30885, 25455>>, <<33992, 30740>>, <<36039, 520>>,
       <<37054, 65530>>, <<42064, 27883>>, <<48889, 41975>>, <<50801, 30962>>
    >>

sha256Init ==
    <<
       <<27145, 58983>>, <<47975, 44677>>, <<15470, 62322>>, <<42319, 62778>>,
       <<20750, 21119>>, <<39685, 26764>>, <<8067, 55723>>, <<23520, 52505>>
    >>

Zeros(n) == SubSeq([i \in 1..n |-> 0], 1, n)

\* the message, a 1 bit, zeros up to 56 mod 64, and the bit length on 8 bytes
sha256Pad(msg) ==
    LET n == Len(msg)
        bitlen == 8 * n
    IN  msg \o <<128>> \o Zeros((55 - n) % 64) \o <<0, 0, 0, 0, 0, 0>>
            \o <<bitlen \div 256, bitlen % 256>>

sha256Sigma0(x) == Xor32(Xor32(RotR(x, 7), RotR(x, 18)), ShR(x, 3))

sha256Sigma1(x) == Xor32(Xor32(RotR(x, 17), RotR(x, 19)), ShR(x, 10))

\* the message schedule: the 16 words of the block extended to 64
RECURSIVE sha256Schedule(_)
sha256Schedule(w) ==
    IF Len(w) = 64 THEN w
    ELSE sha256Schedule(
             Append(w, Add32(Add32(w[Len(w) - 15], sha256Sigma0(w[Len(w) - 14])),
                             Add32(w[Len(w) - 6], sha256Sigma1(w[Len(w) - 1])))))

sha256Ch(e, f, g) == Xor32(And32(e, f), And32(Not32(e), g))

sha256Maj(a, b, c) == Xor32(Xor32(And32(a, b), And32(a, c)), And32(b, c))

sha256Sum0(a) == Xor32(Xor32(RotR(a, 2), RotR(a, 13)), RotR(a, 22))

sha256Sum1(e) == Xor32(Xor32(RotR(e, 6), RotR(e, 11)), RotR(e, 25))

\* the working variables <<a, b, c, d, e, f, g, h>> after a round
sha256Round(s, t1, t2) ==
    <<Add32(t1, t2), s[1], s[2], s[3], Add32(s[4], t1), s[5], s[6], s[7]>>

\* rounds i..64 on the working variables s
RECURSIVE sha256Rounds(_, _, _)
sha256Rounds(s, w, i) ==
    IF i > 64 \/ Len(s) # 8 THEN s
    ELSE sha256Rounds(
             sha256Round(s,
                         Add32(Add32(Add32(s[8], sha256Sum1(s[5])),
                                     Add32(sha256Ch(s[5], s[6], s[7]), sha256K[i])),
                               w[i]),
                         Add32(sha256Sum0(s[1]), sha256Maj(s[1], s[2], s[3]))),
             w, i + 1)

sha256Words(blk) ==
    SubSeq([j \in 1..16 |->
              <<256 * blk[4 * j - 3] + blk[4 * j - 2], 256 * blk[4 * j - 1] + blk[4 * j]>>],
           1, 16)

sha256AddState(h, s) == SubSeq([j \in 1..8 |-> Add32(h[j], s[j])], 1, 8)

sha256Block(h, blk) == sha256AddState(h, sha256Rounds(h, sha256Schedule(sha256Words(blk)), 1))

RECURSIVE sha256Blocks(_, _)
sha256Blocks(h, m) ==
    IF Len(m) = 0 THEN h
    ELSE sha256Blocks(sha256Block(h, SubSeq(m, 1, 64)), SubSeq(m, 65, Len(m)))

sha256Bytes(h) ==
    SubSeq([j \in 1..32 |->
              IF j % 2 = 1
              THEN h[((j - 1) \div 4) + 1][(((j - 1) % 4) \div 2) + 1] \div 256
              ELSE h[((j - 1) \div 4) + 1][(((j - 1) % 4) \div 2) + 1] % 256],
           1, 32)

\* sha256.Sum256: the digest, 32 bytes
Sum256(msg) == sha256Bytes(sha256Blocks(sha256Init, sha256Pad(msg)))

----------------------------------------------------------------------------
(* math/big, the operations the codec uses. *)

Max(a, b) == IF a >= b THEN a ELSE b

Min(a, b) == IF a <= b THEN a ELSE b

\* a bit sequence without its leading zeros
bigNorm(b) ==
    IF \A i \in 1..Len(b) : b[i] = 0 THEN <<>>
    ELSE SubSeq(b, CHOOSE i \in 1..Len(b) : b[i] = 1 /\ \A j \in 1..(i - 1) : b[j] = 0,
                Len(b))

\* bit k of x, counted from the least significant bit 0
bigBit(x, k) == IF k < Len(x) THEN x[Len(x) - k] ELSE 0

RECURSIVE bitsValue(_, _)
bitsValue(b, n) == IF n = 0 THEN 0 ELSE 2 * bitsValue(b, n - 1) + b[n]

bytesBits(bytes) ==
    SubSeq([i \in 1..(8 * Len(bytes)) |->
              (bytes[((i - 1) \div 8) + 1] \div (2 ^ (7 - ((i - 1) % 8)))) % 2],
           1, 8 * Len(bytes))

bigSetBytes(bytes) == bigNorm(bytesBits(bytes))

bigNewInt(v) == bigNorm(SubSeq([i \in 1..31 |-> (v \div (2 ^ (31 - i))) % 2], 1, 31))

bigInt64(x) == bitsValue(x, Len(x))

bigLsh(x, n) == IF x = <<>> THEN <<>> ELSE x \o Zeros(n)

bigRsh(x, n) == SubSeq(x, 1, Len(x) - n)

bigOr(x, y) ==
    LET n == Max(Len(x), Len(y))
    IN  bigNorm(SubSeq([i \in 1..n |-> Max(bigBit(x, n - i), bigBit(y, n - i))], 1, n))

bigAnd(x, y) ==
    LET n == Min(Len(x), Len(y))
    IN  bigNorm(SubSeq([i \in 1..n |-> bigBit(x, n - i) * bigBit(y, n - i)], 1, n))

\* x - y for x >= y, bit k and upwards with the borrow coming in
RECURSIVE bigSubFrom(_, _, _, _, _)
bigSubFrom(x, y, k, borrow, acc) ==
    IF k >= Len(x) THEN acc
    ELSE LET d == bigBit(x, k) - bigBit(y, k) - borrow
         IN  bigSubFrom(x, y, k + 1, IF d < 0 THEN 1 ELSE 0, <<d % 2>> \o acc)

bigSub(x, y) == bigNorm(bigSubFrom(x, y, 0, 0, <<>>))

bigCmp(x, y) ==
    IF x = y THEN 0
    ELSE IF Len(x) < Len(y)
            \/ (Len(x) = Len(y)
                /\ \E i \in 1..Len(x) :
                      x[i] < y[i] /\ \A j \in 1..(i - 1) : x[j] = y[j])
         THEN -1
         ELSE 1

\* the minimal big-endian byte slice of x
bitsBytes(b) ==
    SubSeq([j \in 1..(Len(b) \div 8) |-> bitsValue(SubSeq(b, 8 * j - 7, 8 * j), 8)],
           1, Len(b) \div 8)

bigBytes(x) == bitsBytes(Zeros((8 - (Len(x) % 8)) % 8) \o x)

bigOne == bigNewInt(1)

----------------------------------------------------------------------------
(* pkg/bip39/wordlist: a list of Count words, looked up both ways.          *)

IndexBits == 11
Count == 2048

Languages == {"english", "japanese"}

\* list.Word(i): the word at index i
ListWord(list, i) == <<list, i>>

\* list.Index(word): the index of the word, negative when it is not in the list
ListIndex(list, word) ==
    IF word[1] = list /\ word[2] \in 0..(Count - 1) THEN word[2] ELSE -1

wordIndexMask == bigNewInt(Count - 1)

----------------------------------------------------------------------------
(* pkg/bip39: the codec. *)

entropyMultiple == 32
entropyMinBits == 128
entropyMaxBits == 512
wordsMultiple == 3
wordsMin == 12
wordsMax == 24

validateEntropy(ent) ==
    LET bits == Len(ent) * 8
    IN  IF bits < entropyMinBits \/ bits > entropyMaxBits \/ bits % entropyMultiple # 0
        THEN ErrInvalidEntropySize
        ELSE nil

validateMnemonic(mnem) ==
    IF Len(mnem) < wordsMin \/ Len(mnem) > wordsMax \/ Len(mnem) % wordsMultiple # 0
    THEN ErrInvalidMnemonic
    ELSE IF \E i \in 1..Len(mnem) : ListIndex(wordList, mnem[i]) < 0
         THEN ErrInvalidMnemonic
         ELSE nil

entropyBitsToWordCount(bits) == (bits + bits \div entropyMultiple) \div IndexBits

wordCountToEntropyBits(wordCount) == (wordCount * IndexBits * entropyMultiple) \div (entropyMultiple + 1)

padBytes(bytes, length) ==
    IF Len(bytes) >= length THEN bytes ELSE Zeros(length - Len(bytes)) \o bytes

bitsHash == 256

\* computeChecksum: the first numBits bits of the SHA-256 hash of bytes
computeChecksum(bytes, numBits) ==
    IF numBits > bitsHash THEN Panic("invalid number of bits")
    ELSE Return(bigRsh(bigSetBytes(Sum256(bytes)), bitsHash - numBits), nil)

emptyWord == <<"", 0>>

\* make(Mnemonic, n)
makeMnemonic(n) == SubSeq([j \in 1..n |-> emptyWord], 1, n)

\* the loop of EntropyToMnemonic filling the words from the front, the least
\* significant group first
RECURSIVE entropyToMnemonicLoop_Forward(_, _, _)
entropyToMnemonicLoop_Forward(bigEntropy, words, i) ==
    IF i < 0 \/ Len(bigEntropy) < 0 THEN words
    ELSE entropyToMnemonicLoop_Forward(
             bigRsh(bigEntropy, IndexBits),
             [words EXCEPT
                ![Len(words) - i] = ListWord(wordList, bigInt64(bigAnd(bigEntropy, wordIndexMask)))],
             i - 1)

\* the loop of EntropyToMnemonic, from word i (0-based) down to word 0
RECURSIVE entropyToMnemonicLoop(_, _, _)
entropyToMnemonicLoop(bigEntropy, words, i) ==
    IF i < 0 \/ Len(bigEntropy) < 0 THEN words
    ELSE entropyToMnemonicLoop(
             bigRsh(bigEntropy, IndexBits),
             [words EXCEPT
                ![i + 1] = ListWord(wordList, bigInt64(bigAnd(bigEntropy, wordIndexMask)))],
             i - 1)

\* EntropyToMnemonic once the checksum is computed
entropyToMnemonicWords(ent, bitsEntropy, bitsChecksum, checksum) ==
    IF checksum.panic # "" THEN Panic(checksum.panic)
    ELSE Return(entropyToMnemonicLoop(
                    bigOr(bigLsh(bigSetBytes(ent), bitsChecksum), checksum.val),
                    makeMnemonic(entropyBitsToWordCount(bitsEntropy)),
                    entropyBitsToWordCount(bitsEntropy) - 1),
                nil)

\* EntropyToMnemonic without the call of validateEntropy
EntropyToMnemonic_NoValidate(ent) ==
    entropyToMnemonicWords(ent, Len(ent) * 8, (Len(ent) * 8) \div 32,
                           computeChecksum(ent, (Len(ent) * 8) \div 32))

EntropyToMnemonic(ent) ==
    IF validateEntropy(ent) # nil THEN Return(nil, validateEntropy(ent))
    ELSE entropyToMnemonicWords(ent, Len(ent) * 8, (Len(ent) * 8) \div 32,
                                computeChecksum(ent, (Len(ent) * 8) \div 32))

\* the loop of MnemonicToEntropy over the words from position k on
RECURSIVE mnemonicToEntropyLoop(_, _, _)
mnemonicToEntropyLoop(mnem, decoder, k) ==
    IF k > Len(mnem) \/ Len(decoder) < 0 THEN Return(decoder, nil)
    ELSE IF ListIndex(wordList, mnem[k]) < 0 \/ ListIndex(wordList, mnem[k]) >= Count
         THEN Panic("invalid word index")
         ELSE mnemonicToEntropyLoop(
                  mnem,
                  bigOr(bigLsh(decoder, IndexBits), bigNewInt(ListIndex(wordList, mnem[k]))),
                  k + 1)

\* the comparison of MnemonicToEntropy comparing with > 0 in place of != 0
mnemonicToEntropyCompare_Greater(checksum, ent, computed) ==
    IF computed.panic # "" THEN computed
    ELSE IF bigCmp(checksum, computed.val) > 0
         THEN Return(nil, ErrInvalidChecksum)
         ELSE Return(ent, nil)

\* MnemonicToEntropy: the comparison of the decoded with the computed checksum
mnemonicToEntropyCompare(checksum, ent, computed) ==
    IF computed.panic # "" THEN computed
    ELSE IF bigCmp(checksum, computed.val) # 0
         THEN Return(nil, ErrInvalidChecksum)
         ELSE Return(ent, nil)

\* MnemonicToEntropy once the checksum and the entropy are split
mnemonicToEntropyCheck(checksum, ent, bitsChecksum) ==
    mnemonicToEntropyCompare(checksum, ent, computeChecksum(ent, bitsChecksum))

\* MnemonicToEntropy once the words are decoded
mnemonicToEntropySplit(decoded, bitsEntropy, bitsChecksum) ==
    IF decoded.panic # "" THEN decoded
    ELSE mnemonicToEntropyCheck(
             bigAnd(decoded.val, bigSub(bigLsh(bigOne, bitsChecksum), bigOne)),
             padBytes(bigBytes(bigRsh(decoded.val, bitsChecksum)), bitsEntropy \div 8),
             bitsChecksum)

\* MnemonicToEntropy without the call of validateMnemonic
MnemonicToEntropy_NoValidate(mnem) ==
    mnemonicToEntropySplit(
        mnemonicToEntropyLoop(mnem, bigNewInt(0), 1),
        wordCountToEntropyBits(Len(mnem)),
        wordCountToEntropyBits(Len(mnem)) \div entropyMultiple)

\* MnemonicToEntropy looking the words up before the count is validated
MnemonicToEntropy_ValidateLate(mnem) ==
    IF Len(mnem) >= wordsMin /\ mnemonicToEntropyLoop(mnem, bigNewInt(0), 1).panic # ""
    THEN mnemonicToEntropyLoop(mnem, bigNewInt(0), 1)
    ELSE IF validateMnemonic(mnem) # nil THEN Return(nil, validateMnemonic(mnem))
         ELSE mnemonicToEntropySplit(
                  mnemonicToEntropyLoop(mnem, bigNewInt(0), 1),
                  wordCountToEntropyBits(Len(mnem)),
                  wordCountToEntropyBits(Len(mnem)) \div entropyMultiple)

MnemonicToEntropy(mnem) ==
    IF validateMnemonic(mnem) # nil THEN Return(nil, validateMnemonic(mnem))
    ELSE mnemonicToEntropySplit(
             mnemonicToEntropyLoop(mnem, bigNewInt(0), 1),
             wordCountToEntropyBits(Len(mnem)),
             wordCountToEntropyBits(Len(mnem)) \div entropyMultiple)

----------------------------------------------------------------------------
(* Strings.  A passphrase is the sequence of its code points.  A mnemonic   *)
(* sentence is the sequence of its words and of the separators between.     *)

space == <<" ", 0>>

\* Mnemonic.String: the words joined by single spaces
MnemonicString(mnem) ==
    IF Len(mnem) = 0 THEN <<>>
    ELSE SubSeq([i \in 1..(2 * Len(mnem) - 1) |->
                   IF i % 2 = 1 THEN mnem[(i + 1) \div 2] ELSE space],
                1, 2 * Len(mnem) - 1)

\* ParseMnemonic: the words of the sentence, whatever the spacing
RECURSIVE ParseMnemonic(_)
ParseMnemonic(s) ==
    IF Len(s) = 0 THEN <<>>
    ELSE IF Head(s) = space THEN ParseMnemonic(Tail(s))
         ELSE <<Head(s)>> \o ParseMnemonic(Tail(s))

\* the compatibility decomposition of one code point
nfkdRune(c) == IF c = 233 THEN <<101, 769>> ELSE <<c>>

\* norm.NFKD.String
RECURSIVE NFKD(_)
NFKD(s) == IF Len(s) = 0 THEN <<>> ELSE nfkdRune(Head(s)) \o NFKD(Tail(s))

\* the code points of "mnemonic"
saltPrefix == <<109, 110, 101, 109, 111, 110, 105, 99>>

pbkdf2Iterations == 2048

\* pbkdf2.Key: the derived key, kept as the term of its arguments
pbkdf2Key(password, salt, iter, keyLen, h) ==
    [password |-> password, salt |-> salt, iter |-> iter, keyLen |-> keyLen, hash |-> h]

\* len of a key or of the nil slice
KeyLen(key) == IF key = nil THEN 0 ELSE key.keyLen

\* MnemonicToSeed once the mnemonic is validated; pbkdf2 is the number of
\* PBKDF2 computations made
mnemonicToSeedKey(mnem, pass, validated) ==
    IF validated.panic # "" THEN [Panic(validated.panic) EXCEPT !.val = nil] @@ [pbkdf2 |-> 0]
    ELSE IF validated.err # nil THEN Return(nil, validated.err) @@ [pbkdf2 |-> 0]
         ELSE Return(pbkdf2Key(MnemonicString(mnem), saltPrefix \o NFKD(pass),
                               pbkdf2Iterations, SeedSize, "sha512"),
                     nil) @@ [pbkdf2 |-> 1]

\* MnemonicToSeed with no checking of the mnemonic
MnemonicToSeed_Unvalidated(mnem, pass) == mnemonicToSeedKey(mnem, pass, Return(nil, nil))

MnemonicToSeed(mnem, pass) == mnemonicToSeedKey(mnem, pass, MnemonicToEntropy(mnem))

----------------------------------------------------------------------------
(* The word list registry. *)

\* RegisterWordList: the registry with the list added
RegisterWordList(lists, name) == lists \cup {name}

\* SetWordList with the registry lists: the error it returns
SetWordListErr(lists, name) == IF name \in lists THEN nil ELSE ErrWordListNotFound

\* SetWordList with the registry lists: the active word list after the call
SetWordListTo(lists, name) == IF name \in lists THEN name ELSE wordList

----------------------------------------------------------------------------
(* Inputs of the callers of the codec. *)

\* pattern 0 is all zero bytes; an odd pattern k has k leading zero bytes; an
\* even pattern k > 0 has a first byte with its top bit set
EntropyOf(len, k) ==
    SubSeq([i \in 1..len |->
              IF k = 0 \/ (k % 2 = 1 /\ i <= k) THEN 0
              ELSE IF k % 2 = 0 /\ i = 1 THEN 128 + ((85 * k + 37) % 128)
              ELSE (85 * k + 37 * i) % 256],
           1, len)

RepeatWord(n) == SubSeq([i \in 1..n |-> ListWord("english", 0)], 1, n)

Passphrases == {<<>>, <<233>>}

unlistedWord == <<"unlisted", 0>>

OtherLanguage(l) == CHOOSE x \in Languages : x # l

\* mnem with bit b of its bit buffer flipped, bit 0 being the last one
FlipBit(mnem, b) ==
    LET k == Len(mnem) - (b \div IndexBits)
        p == 2 ^ (b % IndexBits)
        w == mnem[k]
    IN  [mnem EXCEPT ![k] = <<w[1], IF (w[2] \div p) % 2 = 1 THEN w[2] - p ELSE w[2] + p>>]

ChecksumBitsOf(mnem) == (Len(mnem) * IndexBits) \div (entropyMultiple + 1)

\* the lowest and the highest checksum bit, and the lowest entropy bit
TamperBits(mnem) == {0, ChecksumBitsOf(mnem) - 1, ChecksumBitsOf(mnem)}

\* a mnemonic as an outsider may hand it back: as it is, with one bit or two
\* checksum bits flipped, with a word of no list or of another list, or cut
\* short
Variants(mnem) ==
    IF Len(mnem) = 0 THEN {mnem}
    ELSE {mnem}
         \cup {FlipBit(mnem, b) : b \in TamperBits(mnem)}
         \cup {FlipBit(FlipBit(mnem, 1), ChecksumBitsOf(mnem) - 2)}
         \cup {[mnem EXCEPT ![1] = unlistedWord],
               [mnem EXCEPT ![Len(mnem)] = <<OtherLanguage(mnem[1][1]), mnem[Len(mnem)][2]>>],
               SubSeq(mnem, 1, Len(mnem) - 1)}

NoFlags == [language |-> "", mnemonicString |-> <<>>, passphrase |-> <<>>,
            pathString |-> "", prefixString |-> ""]

NoDerived == [path |-> <<>>, key |-> <<>>, hrp |-> "", addr |-> <<>>]

Call(op, arg, ret) == [op |-> op, arg |-> arg, wl |-> wordList, ret |-> ret]

Last(s) == s[Len(s)]

----------------------------------------------------------------------------
(* A caller of the codec: it may select a word list, then encodes its       *)
(* entropy and hands a mnemonic to MnemonicToEntropy or to MnemonicToSeed.  *)

InitPackage ==
    /\ wordLists = Languages
    /\ wordList = defaultLanguage
    /\ flags = NoFlags
    /\ seed = nil
    /\ derived = NoDerived
    /\ output = <<>>
    /\ exit = <<>>
    /\ trace = <<>>
    /\ pbkdf2Calls = 0

Init ==
    /\ InitPackage
    /\ pc = "idle"
    /\ \E kind \in {"entropy", "mnemonic"} :
          IF kind = "entropy"
          THEN /\ \E len \in 0..MaxEntropyLen, k \in 0..MaxPattern :
                     entropy = EntropyOf(len, k)
               /\ mnemonic = <<>>
          ELSE /\ entropy = <<>>
               /\ \E n \in 0..MaxWords : mnemonic = RepeatWord(n)

CallSetWordList(name) ==
    /\ pc = "idle"
    /\ wordList' = SetWordListTo(wordLists, name)
    /\ UNCHANGED <<wordLists, pc, flags, entropy, mnemonic, seed, derived, output,
                   exit, trace, pbkdf2Calls>>

CallEntropyToMnemonic ==
    /\ pc = "idle"
    /\ mnemonic = <<>>
    /\ trace' = Append(trace, Call("EntropyToMnemonic", entropy, EntropyToMnemonic(entropy)))
    /\ mnemonic' = Last(trace').ret.val
    /\ pc' = "encoded"
    /\ UNCHANGED <<wordLists, wordList, flags, entropy, seed, derived, output, exit,
                   pbkdf2Calls>>

CallMnemonicToEntropy ==
    /\ pc \in {"idle", "encoded"}
    /\ \E mnem \in Variants(mnemonic) :
          trace' = Append(trace, Call("MnemonicToEntropy", mnem, MnemonicToEntropy(mnem)))
    /\ pc' = "done"
    /\ UNCHANGED <<wordLists, wordList, flags, entropy, mnemonic, seed, derived, output,
                   exit, pbkdf2Calls>>

CallMnemonicToSeed ==
    /\ pc \in {"idle", "encoded"}
    /\ \E mnem \in {mnemonic, [i \in DOMAIN mnemonic |-> unlistedWord]}, pass \in Passphrases :
          /\ trace' = Append(trace, Call("MnemonicToSeed", <<mnem, pass>>,
                                          MnemonicToSeed(mnem, pass)))
          /\ pbkdf2Calls' = pbkdf2Calls + Last(trace').ret.pbkdf2
    /\ pc' = "done"
    /\ UNCHANGED <<wordLists, wordList, flags, entropy, mnemonic, seed, derived, output,
                   exit>>

Next ==
    \/ \E name \in Languages \cup {"klingon"} : CallSetWordList(name)
    \/ CallEntropyToMnemonic
    \/ CallMnemonicToEntropy
    \/ CallMnemonicToSeed

Spec == Init /\ [][Next]_vars

----------------------------------------------------------------------------
(* A caller that derives seeds from one mnemonic and may select another     *)
(* word list at any time.                                                   *)

SeedEntropyLens == {16, 24, 32}

InitSeed ==
    /\ InitPackage
    /\ pc = "idle"
    /\ \E len \in SeedEntropyLens : entropy = EntropyOf(len, 1)
    /\ mnemonic = <<>>

SwitchWordList(name) ==
    /\ wordList' = SetWordListTo(wordLists, name)
    /\ UNCHANGED <<wordLists, pc, flags, entropy, mnemonic, seed, derived, output,
                   exit, trace, pbkdf2Calls>>

SeedFromMnemonic ==
    /\ pc = "encoded"
    /\ Len(trace) <= MaxSeedCalls
    /\ \E pass \in Passphrases :
          /\ trace' = Append(trace, Call("MnemonicToSeed", <<mnemonic, pass>>,
                                          MnemonicToSeed(mnemonic, pass)))
          /\ pbkdf2Calls' = pbkdf2Calls + Last(trace').ret.pbkdf2
    /\ UNCHANGED <<wordLists, wordList, pc, flags, entropy, mnemonic, seed, derived,
                   output, exit>>

NextSeed ==
    \/ \E name \in Languages \cup {"klingon"} : SwitchWordList(name)
    \/ CallEntropyToMnemonic
    \/ SeedFromMnemonic

SpecSeed == InitSeed /\ [][NextSeed]_vars

----------------------------------------------------------------------------
(* The packages the entry point uses besides bip39. *)

ErrInvalidPath == <<"invalid path">>
ErrUnsupportedDerivation == <<"unsupported derivation">>
ErrInvalidPrefix == <<"invalid prefix">>
ErrRandomSource == <<"random source failure">>

defaultMnemonic ==
    MnemonicString(SubSeq([i \in 1..12 |-> ListWord("english", IF i = 12 THEN 3 ELSE 0)],
                          1, 12))

defaultPath == "44'/4218'/0'/0'"

\* strings.ToLower
ToLower(s) ==
    CASE s = "Japanese" -> "japanese"
      [] s = "ENGLISH" -> "english"
      [] OTHER -> s

\* bip32path.ParsePath: the steps <<index, hardened>> of the path
ParsePath(s) ==
    CASE s = "44'/4218'/0'/0'" ->
             Return(<<<<44, TRUE>>, <<4218, TRUE>>, <<0, TRUE>>, <<0, TRUE>>>>, nil)
      [] s = "44'/4218'/0'/0" ->
             Return(<<<<44, TRUE>>, <<4218, TRUE>>, <<0, TRUE>>, <<0, FALSE>>>>, nil)
      [] OTHER -> Return(nil, ErrInvalidPath)

\* slip10.DeriveKeyFromPath on the curve Ed25519, the key kept as a term
DeriveKeyFromPath(sd, path) ==
    IF \E i \in 1..Len(path) : ~path[i][2]
    THEN Return(nil, ErrUnsupportedDerivation)
    ELSE Return([Key |-> [privateKeyOf |-> sd, path |-> path],
                 ChainCode |-> [chainCodeOf |-> sd, path |-> path]], nil)

\* eddsa.Ed25519().HmacKey()
curveHmacKey == "ed25519 seed"

\* slip10.PrivateKeySize and slip10.ChainCodeSize
PrivateKeySize == 32
ChainCodeSize == 32

\* address.ParsePrefix
ParsePrefix(s) == IF s = "iota" THEN Return("iota", nil) ELSE Return("", ErrInvalidPrefix)

\* the bytes of the versioned Ed25519 address: a version byte and a 32-byte hash
addressPayloadSize == 33

\* the symbols of the Bech32 checksum
bech32ChecksumSize == 6

\* len of a Bech32 string: the prefix, the separator "1", the payload in
\* symbols of 5 bits, and the checksum
Bech32Len(hrp) == Len(hrp) + 1 + (8 * addressPayloadSize + 4) \div 5 + bech32ChecksumSize

\* address.Bech32 of the Ed25519 address of the key, kept as a term with the
\* length of the string
Bech32(hrp, key) ==
    Return([hrp |-> hrp, publicKeyOf |-> key, len |-> Bech32Len(hrp)], nil)

\* len of an address string, or of the empty string
AddrLen(addr) == IF addr = nil THEN 0 ELSE addr.len

\* what rand.Read may do with a buffer: fill it with some bytes, or fail
RandomOutcomes ==
    {[pattern |-> k, err |-> nil] : k \in 0..MaxPattern}
        \cup {[pattern |-> 0, err |-> ErrRandomSource]}

\* generateEntropy making a buffer one byte longer than asked
generateEntropy_OneMore(size, rnd) ==
    IF rnd.err # nil THEN Return(nil, rnd.err)
    ELSE Return(EntropyOf(size + 1, rnd.pattern), nil)

\* generateEntropy, rnd being what rand.Read does with the buffer
generateEntropy(size, rnd) ==
    IF rnd.err # nil THEN Return(nil, rnd.err)
    ELSE Return(EntropyOf(size, rnd.pattern), nil)

entropySize == 256 \div 8

----------------------------------------------------------------------------
(* The program: package init, then run with the parsed flags. *)

Sentences ==
    {<<>>,
     defaultMnemonic,
     <<space>> \o MnemonicString([i \in 1..12 |-> ListWord("japanese", IF i = 12 THEN 3 ELSE 0)]),
     MnemonicString([i \in 1..12 |-> ListWord("english", 0)]),
     MnemonicString([i \in 1..11 |-> ListWord("english", 0)]),
     MnemonicString([i \in 1..12 |-> IF i = 5 THEN unlistedWord ELSE ListWord("english", 0)])}

FlagInputs ==
    [language : {"english", "Japanese", "klingon"},
     mnemonicString : Sentences,
     passphrase : Passphrases,
     pathString : {defaultPath, "44'/4218'/0'/0", "44''"},
     prefixString : {"iota", "IoTa"}]

InitRun ==
    /\ wordLists = {}
    /\ wordList = ""
    /\ pc = "init"
    /\ flags \in FlagInputs
    /\ entropy = nil
    /\ mnemonic = nil
    /\ seed = nil
    /\ derived = NoDerived
    /\ output = <<>>
    /\ exit = <<>>
    /\ trace = <<>>
    /\ pbkdf2Calls = 0

\* run returns err
RunReturn(err) == pc' = "returned" /\ exit' = err

\* package init: the word lists are registered and the default one selected
PackageInit ==
    /\ pc = "init"
    /\ wordLists' = RegisterWordList(RegisterWordList(wordLists, "english"), "japanese")
    /\ wordList' = SetWordListTo(wordLists', defaultLanguage)
    /\ trace' = Append(trace, Call("SetWordList", defaultLanguage,
                                    Return(nil, SetWordListErr(wordLists', defaultLanguage))))
    /\ pc' = IF SetWordListErr(wordLists', defaultLanguage) # nil THEN "fatal" ELSE "run"
    /\ UNCHANGED <<flags, entropy, mnemonic, seed, derived, output, exit, pbkdf2Calls>>

\* the first step of run with the error of SetWordList dropped
RunSetWordList_IgnoreError ==
    /\ pc = "run"
    /\ wordList' = SetWordListTo(wordLists, ToLower(flags.language))
    /\ trace' = Append(trace, Call("SetWordList", ToLower(flags.language),
                                    Return(nil, SetWordListErr(wordLists, ToLower(flags.language)))))
    /\ pc' = IF Len(flags.mnemonicString) = 0 THEN "generate" ELSE "parse"
    /\ UNCHANGED <<wordLists, flags, entropy, mnemonic, seed, derived, output, exit,
                   pbkdf2Calls>>

RunSetWordList ==
    /\ pc = "run"
    /\ wordList' = SetWordListTo(wordLists, ToLower(flags.language))
    /\ trace' = Append(trace, Call("SetWordList", ToLower(flags.language),
                                    Return(nil, SetWordListErr(wordLists, ToLower(flags.language)))))
    /\ IF SetWordListErr(wordLists, ToLower(flags.language)) # nil
       THEN RunReturn(SetWordListErr(wordLists, ToLower(flags.language)))
       ELSE /\ pc' = IF Len(flags.mnemonicString) = 0 THEN "generate" ELSE "parse"
            /\ exit' = exit
    /\ UNCHANGED <<wordLists, flags, entropy, mnemonic, seed, derived, output, pbkdf2Calls>>

RunGenerateEntropy ==
    /\ pc = "generate"
    /\ \E rnd \in RandomOutcomes :
          /\ trace' = Append(trace, Call("generateEntropy", entropySize,
                                          generateEntropy(entropySize, rnd)))
          /\ entropy' = Last(trace').ret.val
          /\ IF rnd.err # nil
             THEN RunReturn(<<"failed generating entropy">> \o rnd.err)
             ELSE pc' = "encode" /\ exit' = exit
    /\ UNCHANGED <<wordLists, wordList, flags, mnemonic, seed, derived, output, pbkdf2Calls>>

\* the error of EntropyToMnemonic is dropped
RunEntropyToMnemonic ==
    /\ pc = "encode"
    /\ trace' = Append(trace, Call("EntropyToMnemonic", entropy, EntropyToMnemonic(entropy)))
    /\ mnemonic' = Last(trace').ret.val
    /\ pc' = IF Last(trace').ret.panic # "" THEN "panicked" ELSE "seed"
    /\ UNCHANGED <<wordLists, wordList, flags, entropy, seed, derived, output, exit,
                   pbkdf2Calls>>

RunMnemonicToEntropy ==
    /\ pc = "parse"
    /\ mnemonic' = ParseMnemonic(flags.mnemonicString)
    /\ trace' = Append(trace, Call("MnemonicToEntropy", mnemonic', MnemonicToEntropy(mnemonic')))
    /\ entropy' = Last(trace').ret.val
    /\ IF Last(trace').ret.panic # ""
       THEN pc' = "panicked" /\ exit' = exit
       ELSE IF Last(trace').ret.err # nil
            THEN RunReturn(<<"invalid path">> \o Last(trace').ret.err)
            ELSE pc' = "seed" /\ exit' = exit
    /\ UNCHANGED <<wordLists, wordList, flags, seed, derived, output, pbkdf2Calls>>

\* the error of MnemonicToSeed is dropped
RunMnemonicToSeed ==
    /\ pc = "seed"
    /\ trace' = Append(trace, Call("MnemonicToSeed", <<mnemonic, flags.passphrase>>,
                                    MnemonicToSeed(mnemonic, flags.passphrase)))
    /\ seed' = Last(trace').ret.val
    /\ pbkdf2Calls' = pbkdf2Calls + Last(trace').ret.pbkdf2
    /\ pc' = IF Last(trace').ret.panic # "" THEN "panicked" ELSE "path"
    /\ UNCHANGED <<wordLists, wordList, flags, entropy, mnemonic, derived, output, exit>>

RunParsePath ==
    /\ pc = "path"
    /\ trace' = Append(trace, Call("ParsePath", flags.pathString, ParsePath(flags.pathString)))
    /\ derived' = [derived EXCEPT !.path = ParsePath(flags.pathString).val]
    /\ IF ParsePath(flags.pathString).err # nil
       THEN RunReturn(<<"invalid path">> \o ParsePath(flags.pathString).err)
       ELSE pc' = "parameters" /\ exit' = exit
    /\ UNCHANGED <<wordLists, wordList, flags, entropy, mnemonic, seed, output, pbkdf2Calls>>

RunPrintParameters ==
    /\ pc = "parameters"
    /\ output' = output \o <<[line |-> "==> Key Derivation Parameters", len |-> 0,
                              value |-> nil],
                             [line |-> "entropy", len |-> Len(entropy), value |-> entropy],
                             [line |-> "mnemonic", len |-> Len(mnemonic), value |-> mnemonic],
                             [line |-> "optional passphrase", len |-> 0,
                              value |-> flags.passphrase],
                             [line |-> "master seed", len |-> KeyLen(seed), value |-> seed],
                             [line |-> "==> Ed25519 Private Key Derivation", len |-> 0,
                              value |-> nil]>>
    /\ trace' = Append(trace, Call("Print", "parameters", Return(nil, nil)))
    /\ pc' = "derive"
    /\ UNCHANGED <<wordLists, wordList, flags, entropy, mnemonic, seed, derived, exit,
                   pbkdf2Calls>>

RunDeriveKey ==
    /\ pc = "derive"
    /\ trace' = Append(trace, Call("DeriveKeyFromPath", <<seed, derived.path>>,
                                    DeriveKeyFromPath(seed, derived.path)))
    /\ derived' = [derived EXCEPT !.key = DeriveKeyFromPath(seed, derived.path).val]
    /\ IF DeriveKeyFromPath(seed, derived.path).err # nil
       THEN RunReturn(<<"failed deriving ed25519 key">>
                          \o DeriveKeyFromPath(seed, derived.path).err)
       ELSE pc' = "prefix" /\ exit' = exit
    /\ UNCHANGED <<wordLists, wordList, flags, entropy, mnemonic, seed, output, pbkdf2Calls>>

RunParsePrefix ==
    /\ pc = "prefix"
    /\ trace' = Append(trace, Call("ParsePrefix", flags.prefixString,
                                    ParsePrefix(flags.prefixString)))
    /\ derived' = [derived EXCEPT !.hrp = ParsePrefix(flags.prefixString).val]
    /\ IF ParsePrefix(flags.prefixString).err # nil
       THEN RunReturn(<<"invalid network prefix">> \o ParsePrefix(flags.prefixString).err)
       ELSE pc' = "address" /\ exit' = exit
    /\ UNCHANGED <<wordLists, wordList, flags, entropy, mnemonic, seed, output, pbkdf2Calls>>

RunBech32 ==
    /\ pc = "address"
    /\ trace' = Append(trace, Call("Bech32", <<derived.hrp, derived.key.Key>>,
                                    Bech32(derived.hrp, derived.key.Key)))
    /\ derived' = [derived EXCEPT !.addr = Bech32(derived.hrp, derived.key.Key).val]
    /\ IF Bech32(derived.hrp, derived.key.Key).err # nil
       THEN RunReturn(<<"failed to encode address">> \o Bech32(derived.hrp, derived.key.Key).err)
       ELSE pc' = "key" /\ exit' = exit
    /\ UNCHANGED <<wordLists, wordList, flags, entropy, mnemonic, seed, output, pbkdf2Calls>>

RunPrintKey ==
    /\ pc = "key"
    /\ output' = output \o <<[line |-> "SLIP-10 curve seed", len |-> 0,
                              value |-> curveHmacKey],
                             [line |-> "SLIP-10 address path", len |-> 0,
                              value |-> derived.path],
                             [line |-> "private key", len |-> PrivateKeySize,
                              value |-> derived.key.Key],
                             [line |-> "chain code", len |-> ChainCodeSize,
                              value |-> derived.key.ChainCode],
                             [line |-> "address", len |-> AddrLen(derived.addr),
                              value |-> derived.addr]>>
    /\ trace' = Append(trace, Call("Print", "key", Return(nil, nil)))
    /\ RunReturn(nil)
    /\ UNCHANGED <<wordLists, wordList, flags, entropy, mnemonic, seed, derived, pbkdf2Calls>>

NextRun ==
    \/ PackageInit
    \/ RunSetWordList
    \/ RunGenerateEntropy
    \/ RunEntropyToMnemonic
    \/ RunMnemonicToEntropy
    \/ RunMnemonicToSeed
    \/ RunParsePath
    \/ RunPrintParameters
    \/ RunDeriveKey
    \/ RunParsePrefix
    \/ RunBech32
    \/ RunPrintKey

SpecRun == InitRun /\ [][NextRun]_vars

----------------------------------------------------------------------------
(* What the claims speak of. *)

Returned(op) == Len(trace) > 0 /\ Last(trace).op = op

\* the last call is MnemonicToEntropy on what EntropyToMnemonic just returned
\* for an entropy of a supported length
RoundTripped ==
    /\ Len(trace) >= 2
    /\ trace[Len(trace) - 1].op = "EntropyToMnemonic"
    /\ Len(trace[Len(trace) - 1].arg) \in {16 + 4 * j : j \in 0..12}
    /\ Last(trace).op = "MnemonicToEntropy"
    /\ Last(trace).arg = trace[Len(trace) - 1].ret.val
    /\ Last(trace).wl = trace[Len(trace) - 1].wl

StandardWordCounts == {12, 15, 18, 21, 24}

\* the word counts of the mnemonics that EntropyToMnemonic returns
EncodableWordCounts == {12 + 3 * j : j \in 0..12}

AllListed(call) == \A i \in 1..Len(call.arg) : call.arg[i][1] = call.wl

\* the bit buffer of a mnemonic: the 11 bits of each word's index, in order
MnemonicBits(mnem) ==
    SubSeq([i \in 1..(IndexBits * Len(mnem)) |->
              (mnem[((i - 1) \div IndexBits) + 1][2]
                  \div (2 ^ (IndexBits - 1 - ((i - 1) % IndexBits)))) % 2],
           1, IndexBits * Len(mnem))

\* the leading numBits bits of the SHA-256 hash of bytes
HashBits(bytes, numBits) == SubSeq(bytesBits(Sum256(bytes)), 1, numBits)

\* what MnemonicToEntropy is to return for a buffer whose leading bits are
\* the entropy ent and whose trailing bits are checksumBits
DecodeOutcome(ent, checksumBits) ==
    IF checksumBits # HashBits(ent, Len(checksumBits))
    THEN Return(nil, ErrInvalidChecksum)
    ELSE Return(ent, nil)

DecodeOutcomeOf(bits, bitsEntropy) ==
    DecodeOutcome(bitsBytes(SubSeq(bits, 1, bitsEntropy)),
                  SubSeq(bits, bitsEntropy + 1, Len(bits)))

\* the words that the bit buffer bits selects from the list wl
WordsOf(bits, wl) ==
    SubSeq([i \in 1..(Len(bits) \div IndexBits) |->
              ListWord(wl, bitsValue(SubSeq(bits, IndexBits * (i - 1) + 1, IndexBits * i),
                                     IndexBits))],
           1, Len(bits) \div IndexBits)

SeedOutcomeAgrees(ret, validated) ==
    IF validated.err # nil
    THEN ret.val = nil /\ ret.err = validated.err /\ ret.panic = "" /\ pbkdf2Calls = 0
    ELSE ret.err = nil /\ ret.panic = "" /\ KeyLen(ret.val) = 64 /\ pbkdf2Calls = 1

----------------------------------------------------------------------------
(* The claims about the codec, over the behaviours of Spec. *)

C3_EntropySize ==
    Returned("EntropyToMnemonic") =>
        IF \/ Len(Last(trace).arg) < 16
           \/ Len(Last(trace).arg) > 64
           \/ Len(Last(trace).arg) % 4 # 0
        THEN Last(trace).ret = Return(nil, ErrInvalidEntropySize)
        ELSE /\ Last(trace).ret.err = nil
             /\ Last(trace).ret.panic = ""
             /\ Len(Last(trace).ret.val)
                  = (8 * Len(Last(trace).arg) + (8 * Len(Last(trace).arg)) \div 32) \div 11

C3_Witness ==
    /\ Returned("EntropyToMnemonic")
    /\ Len(Last(trace).arg) = 68
    /\ Last(trace).ret = Return(nil, ErrInvalidEntropySize)

\* C4: a mnemonic of 12, 15, ..., 48 words with a word that is not in the
\* active list gets ErrInvalidMnemonic as an error value, and no call of
\* MnemonicToEntropy ends in the panic "invalid word index".
C4_UnknownWord ==
    Returned("MnemonicToEntropy") =>
        /\ Last(trace).ret.panic = ""
        /\ (Len(Last(trace).arg) \in EncodableWordCounts /\ ~AllListed(Last(trace)))
              => Last(trace).ret = Return(nil, ErrInvalidMnemonic)

C4_Witness ==
    /\ Returned("MnemonicToEntropy")
    /\ Len(Last(trace).arg) = 24
    /\ Last(trace).arg[1] = unlistedWord
    /\ \A i \in 2..24 : Last(trace).arg[i][1] = Last(trace).wl
    /\ Last(trace).ret = Return(nil, ErrInvalidMnemonic)

\* C5: for a mnemonic of an accepted word count whose words are all listed,
\* MnemonicToEntropy takes the leading 32*wordCount/3 bits of the buffer as the
\* entropy and returns ErrInvalidChecksum exactly when the remaining bits
\* differ from the leading bits of the SHA-256 hash of that entropy, and the
\* entropy otherwise; a valid mnemonic with only checksum bits altered is
\* rejected.
C5_Checksum ==
    (/\ Returned("MnemonicToEntropy")
     /\ Len(Last(trace).arg) \in StandardWordCounts
     /\ AllListed(Last(trace)))
        => /\ Last(trace).ret
                = DecodeOutcomeOf(MnemonicBits(Last(trace).arg),
                                  (32 * Len(Last(trace).arg)) \div 3)
           /\ (/\ Len(trace) >= 2
               /\ trace[Len(trace) - 1].op = "EntropyToMnemonic"
               /\ trace[Len(trace) - 1].wl = Last(trace).wl
               /\ Len(Last(trace).arg) = Len(trace[Len(trace) - 1].ret.val)
               /\ Last(trace).arg # trace[Len(trace) - 1].ret.val
               /\ SubSeq(MnemonicBits(Last(trace).arg), 1, (32 * Len(Last(trace).arg)) \div 3)
                    = SubSeq(MnemonicBits(trace[Len(trace) - 1].ret.val), 1,
                             (32 * Len(Last(trace).arg)) \div 3))
                 => Last(trace).ret = Return(nil, ErrInvalidChecksum)

C5_Witness ==
    /\ Len(trace) >= 2
    /\ Returned("MnemonicToEntropy")
    /\ trace[Len(trace) - 1].op = "EntropyToMnemonic"
    /\ Len(Last(trace).arg) = 24
    /\ Last(trace).arg = FlipBit(trace[Len(trace) - 1].ret.val, 7)
    /\ Last(trace).ret = Return(nil, ErrInvalidChecksum)

\* C6: MnemonicToSeed returns the error of MnemonicToEntropy and a nil seed,
\* computing no PBKDF2, whenever MnemonicToEntropy fails on the mnemonic, and
\* a nil error and a seed of 64 bytes whenever it succeeds.
C6_SeedValidates ==
    Returned("MnemonicToSeed") =>
        SeedOutcomeAgrees(Last(trace).ret, MnemonicToEntropy(Last(trace).arg[1]))

C6_Witness ==
    /\ Returned("MnemonicToSeed")
    /\ Len(Last(trace).arg[1]) = 12
    /\ Last(trace).ret.err = ErrInvalidChecksum
    /\ Last(trace).ret.val = nil
    /\ pbkdf2Calls = 0

\* C9: the words EntropyToMnemonic returns are those that the 11-bit groups of
\* the buffer, the entropy bits followed by the first bitlen/32 bits of its
\* SHA-256 hash, select from the active list, first group first, and every
\* index is in 0..2047.
C9_WordOrder ==
    (Returned("EntropyToMnemonic") /\ Last(trace).ret.err = nil)
        => /\ Last(trace).ret.val
                = WordsOf(bytesBits(Last(trace).arg)
                             \o HashBits(Last(trace).arg, (8 * Len(Last(trace).arg)) \div 32),
                          Last(trace).wl)
           /\ \A i \in 1..Len(Last(trace).ret.val) : Last(trace).ret.val[i][2] \in 0..2047

C9_Witness ==
    /\ Returned("EntropyToMnemonic")
    /\ Last(trace).ret.err = nil
    /\ Last(trace).wl = "japanese"
    /\ Len(Last(trace).ret.val) = 48
    /\ Last(trace).ret.val[1][2] = 0
    /\ Last(trace).ret.val[48][2] # 0

----------------------------------------------------------------------------
(* The claim about seeds, over the behaviours of SpecSeed. *)

\* C7: any two calls of MnemonicToSeed with the same mnemonic and the same
\* passphrase have the same outcome, whatever word list is active at either
\* call and whatever was called in between.
C7_SeedPure ==
    \A i, j \in 1..Len(trace) :
        (/\ trace[i].op = "MnemonicToSeed"
         /\ trace[j].op = "MnemonicToSeed"
         /\ trace[i].arg = trace[j].arg)
            => /\ trace[i].ret.val = trace[j].ret.val
               /\ trace[i].ret.err = trace[j].ret.err

----------------------------------------------------------------------------
(* The claims about the program, over the behaviours of SpecRun. *)

CodecOps == {"EntropyToMnemonic", "MnemonicToEntropy", "MnemonicToSeed"}

Failed(call) == call.ret.err # nil \/ call.ret.panic # ""

\* C8: a step of run that fails is the last step of run, which then has
\* returned a non-nil error; so nothing is derived or printed after a failure,
\* the calls whose errors run drops (EntropyToMnemonic, MnemonicToSeed)
\* included, and what is printed comes from calls that succeeded.
C8_StopOnError ==
    /\ \A i \in 1..Len(trace) :
          Failed(trace[i]) => i = Len(trace) /\ pc = "returned" /\ exit # nil
    /\ output # <<>> =>
          /\ \A i \in 1..Len(trace) : trace[i].op \in CodecOps => ~Failed(trace[i])
          /\ output[2].value = entropy
          /\ output[3].value = mnemonic
          /\ output[5].value = seed
          /\ KeyLen(seed) = 64
          /\ \E i \in 1..Len(trace) :
                trace[i].op = "MnemonicToSeed" /\ trace[i].ret.val = seed
    /\ (pc = "returned" /\ exit = nil) =>
          /\ Len(output) = 11
          /\ output[9].value = derived.key.Key
          /\ output[10].value = derived.key.ChainCode
          /\ output[11].value = derived.addr
          /\ output[11].len > 0
          /\ derived.key.Key.privateKeyOf = seed

C8_Witness ==
    /\ pc = "returned"
    /\ Last(trace).op = "MnemonicToEntropy"
    /\ Last(trace).ret = Return(nil, ErrInvalidChecksum)
    /\ exit = <<"invalid path">> \o ErrInvalidChecksum
    /\ output = <<>>
    /\ seed = nil
    /\ pbkdf2Calls = 0

\* C10: the active word list is written by package init and by the
\* SetWordList call that opens run, and by nothing after the first call of the
\* codec; no codec call follows a SetWordList that failed; and all codec calls
\* of a run read one and the same list.
C10_WordListFixed ==
    /\ \A i \in 1..Len(trace) : trace[i].op = "SetWordList" => i <= 2
    /\ \A i, j \in 1..Len(trace) :
          (i < j /\ trace[i].op \in CodecOps) => trace[j].op # "SetWordList"
    /\ \A i, j \in 1..Len(trace) :
          (i < j /\ trace[i].op = "SetWordList" /\ Failed(trace[i]))
              => trace[j].op \notin CodecOps
    /\ \A i \in 1..Len(trace) :
          trace[i].op \in CodecOps =>
              /\ trace[i].wl = wordList
              /\ trace[i].wl = ToLower(flags.language)
              /\ trace[i].wl \in wordLists

C10_Witness ==
    /\ pc = "returned"
    /\ exit = nil
    /\ wordList = "japanese"
    /\ \E i, j \in 1..Len(trace) :
          /\ trace[i].op = "MnemonicToEntropy"
          /\ trace[j].op = "MnemonicToSeed"
          /\ trace[i].wl = "japanese"
          /\ trace[j].wl = "japanese"
          /\ trace[j].ret.err = nil

====
